---- MODULE Spec2Model ----
(***************************************************************************)
(* The FlowSphere sequence executor: APISequence of                        *)
(* templates/python/base_template.py (substitution, field extraction,      *)
(* condition evaluation, validation, request building) driven by the       *)
(* per-node orchestration of spec.md section 4.4.                          *)
(*                                                                         *)
(* Strings are sequences of tokens: a literal piece of text, or one        *)
(* {{ ... }} placeholder as the regular expressions of                     *)
(* substitute_variables recognise it.  JSON values are tagged records.     *)
(***************************************************************************)
EXTENDS Integers, Sequences, FiniteSets, TLC

(* ------------------------------------------------------------------ *)
(* Bounds of the model                                                  *)
(* ------------------------------------------------------------------ *)
\* longest node list of a configuration
MaxNodes == 3
\* the clock (generate_timestamp) reads a value in 1..MaxClock
MaxClock == 2

(* ------------------------------------------------------------------ *)
(* JSON-like values                                                     *)
(* ------------------------------------------------------------------ *)
None == [t |-> "null", n |-> 0, s |-> <<>>, c |-> <<>>]
IntV(i) == [t |-> "int", n |-> i, s |-> <<>>, c |-> <<>>]
\* true and false: in Python a bool is the int 1 or 0
BoolV(b) == [t |-> "bool", n |-> IF b THEN 1 ELSE 0, s |-> <<>>, c |-> <<>>]
StrV(toks) == [t |-> "str", n |-> 0, s |-> toks, c |-> <<>>]
\* items: a sequence of [k, v], in insertion order, keys distinct
DictV(items) == [t |-> "dict", n |-> 0, s |-> <<>>, c |-> items]
\* elems: a sequence of [k |-> "", v]
ListV(elems) == [t |-> "list", n |-> 0, s |-> <<>>, c |-> elems]
KV(key, val) == [k |-> key, v |-> val]

(* ------------------------------------------------------------------ *)
(* Tokens of a string                                                   *)
(* ------------------------------------------------------------------ *)
Lit(text) == [k |-> "lit", a |-> text, p |-> <<>>]
GuidTok == [k |-> "guid", a |-> "", p |-> <<>>]
TimestampTok == [k |-> "timestamp", a |-> "", p |-> <<>>]
VarsTok(key) == [k |-> "vars", a |-> key, p |-> <<>>]
InputTok(name) == [k |-> "input", a |-> name, p |-> <<>>]
\* path: the field path, already split at its dots
RespTok(nodeId, path) == [k |-> "responses", a |-> nodeId, p |-> path]

\* one dot-separated part of a field path: name, name[i], [i], name[junk]
Key(name) == [key |-> name, ix |-> "none", i |-> 0]
KeyIdx(name, index) == [key |-> name, ix |-> "int", i |-> index]
KeyBadIdx(name) == [key |-> name, ix |-> "bad", i |-> 0]

PartText(part) ==
  CASE part.ix = "none" -> part.key
    [] part.ix = "int" -> part.key \o "[" \o ToString(part.i) \o "]"
    [] OTHER -> part.key \o "[x]"

RECURSIVE PathText(_)
PathText(path) ==
  IF path = <<>> THEN ""
  ELSE IF Len(path) = 1 THEN PartText(path[1])
  ELSE PartText(path[1]) \o "." \o PathText(Tail(path))

\* the text a token stands for
TokText(tok) ==
  CASE tok.k = "lit" -> tok.a
    [] tok.k = "guid" -> "{{ $guid }}"
    [] tok.k = "timestamp" -> "{{ $timestamp }}"
    [] tok.k = "vars" -> "{{ .vars." \o tok.a \o " }}"
    [] tok.k = "input" -> "{{ .input." \o tok.a \o " }}"
    [] OTHER -> "{{ .responses." \o tok.a \o "." \o PathText(tok.p) \o " }}"

RECURSIVE Text(_)
Text(toks) == IF toks = <<>> THEN "" ELSE TokText(toks[1]) \o Text(Tail(toks))

(* ------------------------------------------------------------------ *)
(* Python's ==, str() and float() on values                             *)
(* ------------------------------------------------------------------ *)
HasKey(items, key) == \E j \in 1..Len(items) : items[j].k = key
Get(items, key) == items[CHOOSE j \in 1..Len(items) : items[j].k = key].v

RECURSIVE PyEq(_, _)
PyEq(x, y) ==
  /\ x.t = y.t \/ {x.t, y.t} = {"int", "bool"}
  /\ CASE x.t = "null" -> TRUE
       [] x.t \in {"int", "bool"} -> x.n = y.n
       [] x.t = "str" -> Text(x.s) = Text(y.s)
       [] x.t = "list" ->
            /\ Len(x.c) = Len(y.c)
            /\ \A j \in 1..Len(x.c) : PyEq(x.c[j].v, y.c[j].v)
       [] OTHER ->
            /\ Len(x.c) = Len(y.c)
            /\ \A j \in 1..Len(x.c) :
                 /\ HasKey(y.c, x.c[j].k)
                 /\ PyEq(x.c[j].v, Get(y.c, x.c[j].k))

\* str(value), as tokens
PyStr(val) ==
  CASE val.t = "str" -> val.s
    [] val.t = "int" -> <<Lit(ToString(val.n))>>
    [] val.t = "bool" -> <<Lit(IF val.n = 1 THEN "True" ELSE "False")>>
    [] val.t = "null" -> <<Lit("None")>>
    [] val.t = "list" -> <<Lit("[...]")>>
    [] OTHER -> <<Lit("{...}")>>

Digits == <<"0", "1", "2", "3", "4", "5", "6", "7", "8", "9">>
IsDigit(ch) == \E d \in DOMAIN Digits : Digits[d] = ch
DigitVal(ch) == (CHOOSE d \in DOMAIN Digits : Digits[d] = ch) - 1

RECURSIVE ParseDigits(_, _, _)
\* the number the digits of text from position j on add to acc
ParseDigits(text, j, acc) ==
  IF j > Len(text) THEN acc
  ELSE ParseDigits(text, j + 1, acc * 10 + DigitVal(SubSeq(text, j, j)))

AllDigits(text) ==
  /\ Len(text) > 0
  /\ \A j \in 1..Len(text) : IsDigit(SubSeq(text, j, j))

FloatOfText(text) ==
  IF AllDigits(text) THEN [ok |-> TRUE, n |-> ParseDigits(text, 1, 0)]
  ELSE [ok |-> FALSE, n |-> 0]

\* float(value): [ok, n]; ok is FALSE where Python raises TypeError or
\* ValueError (None, a dict, a list, text that is not a number)
PyFloat(val) ==
  CASE val.t \in {"int", "bool"} -> [ok |-> TRUE, n |-> val.n]
    [] val.t = "str" -> FloatOfText(Text(val.s))
    [] OTHER -> [ok |-> FALSE, n |-> 0]

(* ------------------------------------------------------------------ *)
(* re.sub's reading of a replacement string                             *)
(* ------------------------------------------------------------------ *)
Letters == "abcdefghijklmnopqrstuvwxyzABCDEFGHIJKLMNOPQRSTUVWXYZ"
IsLetter(ch) == \E j \in 1..Len(Letters) : SubSeq(Letters, j, j) = ch

\* what a backslash followed by ch stands for in a replacement string:
\* [ok, s], ok FALSE where re.sub raises re.error.  The patterns have no
\* groups, so a group reference is an error; the replacement strings of
\* the configurations hold none of \0, \a, \b, \v and \g<0>
ReEscape(ch) ==
  CASE ch = "\\" -> [ok |-> TRUE, s |-> "\\"]
    [] ch = "n" -> [ok |-> TRUE, s |-> "\n"]
    [] ch = "t" -> [ok |-> TRUE, s |-> "\t"]
    [] ch = "r" -> [ok |-> TRUE, s |-> "\r"]
    [] ch = "f" -> [ok |-> TRUE, s |-> "\f"]
    [] IsLetter(ch) \/ IsDigit(ch) -> [ok |-> FALSE, s |-> ""]
    [] OTHER -> [ok |-> TRUE, s |-> "\\" \o ch]

ReAppend(acc, esc) == [ok |-> acc.ok /\ esc.ok, s |-> acc.s \o esc.s]

RECURSIVE ReTemplate(_, _, _)
\* the text re.sub puts in place of a match when given the replacement
\* string text, read from position j on: [ok, s]
ReTemplate(text, j, acc) ==
  IF ~acc.ok \/ j > Len(text) THEN acc
  ELSE IF SubSeq(text, j, j) # "\\"
       THEN ReTemplate(text, j + 1, [ok |-> TRUE, s |-> acc.s \o SubSeq(text, j, j)])
       ELSE IF j = Len(text) THEN [ok |-> FALSE, s |-> acc.s]
       ELSE ReTemplate(text, j + 2, ReAppend(acc, ReEscape(SubSeq(text, j + 1, j + 1))))

\* a literal of a replacement string after re.sub has read it
ReLit(tok) ==
  IF tok.k = "lit" THEN Lit(ReTemplate(tok.a, 1, [ok |-> TRUE, s |-> ""]).s) ELSE tok

\* the replacement string toks after re.sub has read it
ReRepl(toks) == [j \in 1..Len(toks) |-> ReLit(toks[j])]

\* re.sub raises on the replacement string toks
ReRaises(toks) ==
  \E j \in 1..Len(toks) :
    toks[j].k = "lit" /\ ~ReTemplate(toks[j].a, 1, [ok |-> TRUE, s |-> ""]).ok

(* ------------------------------------------------------------------ *)
(* extract_field                                                        *)
(* ------------------------------------------------------------------ *)
Raised == [ok |-> FALSE, v |-> None]
Found(val) == [ok |-> TRUE, v |-> val]

\* current[key] for a str key: KeyError, TypeError unless a dict has it
Subscript(current, key) ==
  IF current.t = "dict" /\ HasKey(current.c, key)
  THEN Found(Get(current.c, key))
  ELSE Raised

\* the position Python's index stands for in a sequence of length len,
\* 0 when it is out of range
Position(len, index) ==
  IF index >= 0 /\ index < len THEN index + 1
  ELSE IF index < 0 /\ -index <= len THEN len + index + 1
  ELSE 0

IndexList(elems, pos) == IF pos = 0 THEN Raised ELSE Found(elems[pos].v)
IndexText(text, pos) ==
  IF pos = 0 THEN Raised ELSE Found(StrV(<<Lit(SubSeq(text, pos, pos))>>))
IndexStr(text, index) == IndexText(text, Position(Len(text), index))

\* current[index] for an int index: an element of a list, a character of
\* a str, KeyError or TypeError otherwise
Index(current, index) ==
  CASE current.t = "list" -> IndexList(current.c, Position(Len(current.c), index))
    [] current.t = "str" -> IndexStr(Text(current.s), index)
    [] OTHER -> Raised

IndexFound(inner, index) == IF inner.ok THEN Index(inner.v, index) ELSE Raised

ExtractPart(current, part) ==
  CASE part.ix = "none" -> Subscript(current, part.key)
    [] part.ix = "bad" -> Raised
    [] OTHER ->
         IF part.key # ""
         THEN IndexFound(Subscript(current, part.key), part.i)
         ELSE Index(current, part.i)

RECURSIVE ExtractParts(_, _)
\* the loop over the parts: r is the value reached so far
ExtractParts(r, parts) ==
  IF ~r.ok THEN Raised
  ELSE IF parts = <<>> THEN r
  ELSE ExtractParts(ExtractPart(r.v, parts[1]), Tail(parts))

OrNone(r) == IF r.ok THEN r.v ELSE None

extract_field(data, field_path) == OrNone(ExtractParts(Found(data), field_path))

(* ------------------------------------------------------------------ *)
(* State                                                                *)
(* ------------------------------------------------------------------ *)
VARIABLES
  config,       \* the configuration: [defaults, nodes]
  variables,    \* self.variables: a sequence of [k, v] in insertion order
  responses,    \* self.responses: node id -> stored response
  user_inputs,  \* self.user_inputs: a sequence of [k, v] in insertion order
  clock,        \* the last value generate_timestamp returned
  guids,        \* how many UUIDs generate_guid has produced
  pc,           \* the orchestration step of the current node
  idx,          \* the position of the current node in config.nodes
  request,      \* the request built for the current node
  response,     \* the response data received for the current node
  failure,      \* what a fatal error reported: [node, kind, errors]
  verdict,      \* what evaluate_conditions last returned: [i, result, evaluated]
  trace,        \* the steps taken so far: a sequence of [ev, i]
  given,        \* what a generator is handed: [json, value]
  outcome       \* what the generator's operation did: [op, valid, msg, raised, ran]

vars == <<config, variables, responses, user_inputs, clock, guids, pc, idx,
          request, response, failure, verdict, trace, given, outcome>>

(* ------------------------------------------------------------------ *)
(* substitute_variables                                                 *)
(* ------------------------------------------------------------------ *)
\* step_timestamp is None
NoTimestamp == 0

RECURSIVE ReplaceTok(_, _, _)
\* every occurrence of the placeholder tok in toks replaced by repl
ReplaceTok(toks, tok, repl) ==
  IF toks = <<>> THEN <<>>
  ELSE (IF toks[1] = tok THEN repl ELSE <<toks[1]>>) \o ReplaceTok(Tail(toks), tok, repl)

RECURSIVE SubGuid(_, _, _)
\* {{ $guid }}: a new UUID for each occurrence; [s, g]
SubGuid(toks, g, done) ==
  IF toks = <<>> THEN [s |-> done, g |-> g]
  ELSE IF toks[1].k = "guid"
       THEN SubGuid(Tail(toks), g + 1, Append(done, Lit("uuid" \o ToString(g + 1))))
       ELSE SubGuid(Tail(toks), g, Append(done, toks[1]))

\* {{ $timestamp }}: the same timestamp for every occurrence of the string
SubTimestamp(toks, step_timestamp) ==
  ReplaceTok(toks, TimestampTok, <<Lit(ToString(step_timestamp))>>)

RECURSIVE SubItems(_, _, _)
\* one re.sub per entry of a mapping, in the mapping's order
SubItems(toks, items, kind) ==
  IF items = <<>> THEN toks
  ELSE SubItems(ReplaceTok(toks, [k |-> kind, a |-> items[1].k, p |-> <<>>],
                           ReRepl(PyStr(items[1].v))),
                Tail(items), kind)

\* some re.sub of the loop over a mapping raises: re.sub reads its
\* replacement string whether or not the pattern matches
BadTemplate(items) == \E j \in 1..Len(items) : ReRaises(PyStr(items[j].v))

\* substitute_variables raises on every string
SubRaises == BadTemplate(variables) \/ BadTemplate(user_inputs)

SubVars(toks) == SubItems(toks, variables, "vars")
SubInput(toks) == SubItems(toks, user_inputs, "input")

IsRespTok(tok) == tok.k = "responses"

\* value.replace(match.group(0), str(extracted_value)) unless it is None
ApplyMatch(cur, m, extracted_value) ==
  IF extracted_value.t # "null" THEN ReplaceTok(cur, m, PyStr(extracted_value))
  ELSE cur

RECURSIVE ApplyMatches(_, _)
\* the loop over re.finditer's matches: a match whose node has no stored
\* response leaves the value as it is
ApplyMatches(cur, matches) ==
  IF matches = <<>> THEN cur
  ELSE ApplyMatches(
         IF matches[1].a \in DOMAIN responses
         THEN ApplyMatch(cur, matches[1],
                         extract_field(responses[matches[1].a], matches[1].p))
         ELSE cur,
         Tail(matches))

SubResponses(toks) == ApplyMatches(toks, SelectSeq(toks, IsRespTok))

\* AfterGuid with the response references resolved before the variables
AfterGuidResponsesFirst(dyn, step_timestamp) ==
  [s |-> SubInput(SubVars(SubResponses(SubTimestamp(dyn.s, step_timestamp)))),
   g |-> dyn.g]

\* AfterGuid with the response references resolved before the user input
AfterGuidInputLast(dyn, step_timestamp) ==
  [s |-> SubInput(SubResponses(SubVars(SubTimestamp(dyn.s, step_timestamp)))),
   g |-> dyn.g]

\* passes 2 to 4 and the timestamp of pass 1, after the UUIDs of pass 1
AfterGuid(dyn, step_timestamp) ==
  [s |-> SubResponses(SubInput(SubVars(SubTimestamp(dyn.s, step_timestamp)))),
   g |-> dyn.g]

\* the str branch: [s, g]
SubString(toks, step_timestamp, now, g) ==
  AfterGuid(SubGuid(toks, g, <<>>),
            IF step_timestamp = NoTimestamp THEN now ELSE step_timestamp)

RECURSIVE StrLeaves(_)
RECURSIVE ItemLeaves(_)
\* the number of strings substitute_variables reaches in a value
StrLeaves(value) ==
  CASE value.t = "str" -> 1
    [] value.t \in {"dict", "list"} -> ItemLeaves(value.c)
    [] OTHER -> 0

ItemLeaves(items) ==
  IF items = <<>> THEN 0 ELSE StrLeaves(items[1].v) + ItemLeaves(Tail(items))

StrResult(r) == [v |-> StrV(r.s), used |-> 1, g |-> r.g, err |-> SubRaises]
WithChildren(value, r) ==
  [v |-> [value EXCEPT !.c = r.c], used |-> r.used, g |-> r.g, err |-> r.err]
AddChild(done, key, r) ==
  [c |-> Append(done.c, KV(key, r.v)), used |-> done.used + r.used, g |-> r.g,
   err |-> done.err \/ r.err]

RECURSIVE substitute_variables(_, _, _, _)
RECURSIVE SubChildren(_, _, _, _)
\* reads: what generate_timestamp returns at each string it is called for,
\* in order.  The result: [v, used, g, err], used the number of reads
\* consumed, err whether a re.sub raised
substitute_variables(value, step_timestamp, reads, g) ==
  CASE value.t = "str" -> StrResult(SubString(value.s, step_timestamp, reads[1], g))
    [] value.t \in {"dict", "list"} ->
         WithChildren(value, SubChildren(value.c, step_timestamp, reads,
                                         [c |-> <<>>, used |-> 0, g |-> g,
                                          err |-> FALSE]))
    [] OTHER -> [v |-> value, used |-> 0, g |-> g, err |-> FALSE]

\* the comprehension over the values of a dict, the elements of a list
SubChildren(items, step_timestamp, reads, done) ==
  IF items = <<>> THEN done
  ELSE SubChildren(
         Tail(items), step_timestamp, reads,
         AddChild(done, items[1].k,
                  substitute_variables(items[1].v, step_timestamp,
                                       SubSeq(reads, done.used + 1, Len(reads)),
                                       done.g)))

\* generate_timestamp read once, at time now, for every string of value
ReadsAt(value, now) == [j \in 1..StrLeaves(value) |-> now]

(* ------------------------------------------------------------------ *)
(* evaluate_conditions                                                  *)
(* ------------------------------------------------------------------ *)
\* d.get(key): None when the key is missing
DictGet(items, key) == IF HasKey(items, key) THEN Get(items, key) ELSE None
\* d.get('body', {})
BodyOf(response_data) ==
  IF HasKey(response_data.c, "body") THEN Get(response_data.c, "body") ELSE DictV(<<>>)

NumericOperators == {"greaterThan", "lessThan", "greaterThanOrEqual", "lessThanOrEqual"}

\* float(actual) <op> float(expected): "raise" when a float() raises
Numeric(operator, fa, fe) ==
  IF ~fa.ok \/ ~fe.ok THEN "raise"
  ELSE IF CASE operator = "greaterThan" -> fa.n > fe.n
            [] operator = "lessThan" -> fa.n < fe.n
            [] operator = "greaterThanOrEqual" -> fa.n >= fe.n
            [] OTHER -> fa.n <= fe.n
       THEN "true" ELSE "false"

\* _evaluate_operator with a statusCode branch that compares nothing
EvaluateOperatorAnyStatus(operator, actual, expected) ==
  CASE operator = "statusCode" -> "true"
    [] operator = "equals" -> IF PyEq(actual, expected) THEN "true" ELSE "false"
    [] operator = "notEquals" -> IF PyEq(actual, expected) THEN "false" ELSE "true"
    [] operator = "exists" -> IF actual.t # "null" THEN "true" ELSE "false"
    [] operator \in NumericOperators -> Numeric(operator, PyFloat(actual), PyFloat(expected))
    [] OTHER -> "false"

\* _evaluate_operator comparing what the values read as
EvaluateOperatorAsText(operator, actual, expected) ==
  CASE operator \in {"statusCode", "equals"} ->
         IF Text(PyStr(actual)) = Text(PyStr(expected)) THEN "true" ELSE "false"
    [] operator = "notEquals" ->
         IF Text(PyStr(actual)) = Text(PyStr(expected)) THEN "false" ELSE "true"
    [] operator = "exists" -> IF actual.t # "null" THEN "true" ELSE "false"
    [] operator \in NumericOperators -> Numeric(operator, PyFloat(actual), PyFloat(expected))
    [] OTHER -> "false"

\* "true", "false", or "raise"
_evaluate_operator(operator, actual, expected) ==
  CASE operator = "statusCode" -> IF PyEq(actual, expected) THEN "true" ELSE "false"
    [] operator = "equals" -> IF PyEq(actual, expected) THEN "true" ELSE "false"
    [] operator = "notEquals" -> IF PyEq(actual, expected) THEN "false" ELSE "true"
    [] operator = "exists" -> IF actual.t # "null" THEN "true" ELSE "false"
    [] operator \in NumericOperators -> Numeric(operator, PyFloat(actual), PyFloat(expected))
    [] OTHER -> "false"

\* the expected value after substitution: [v, used, g, err]
SubExpected(value, now, g) ==
  IF value.t # "null"
  THEN substitute_variables(value, NoTimestamp, ReadsAt(value, now), g)
  ELSE [v |-> None, used |-> 0, g |-> g, err |-> FALSE]

\* the actual value of a condition whose node, if it names one, has a
\* stored response
ActualValue(condition) ==
  IF condition.node # ""
  THEN IF condition.operator = "statusCode"
       THEN DictGet(responses[condition.node].c, "_status_code")
       ELSE IF condition.field # <<>>
            THEN extract_field(BodyOf(responses[condition.node]), condition.field)
            ELSE None
  ELSE IF condition.variable # "" THEN DictGet(variables, condition.variable)
  ELSE IF condition.input # "" THEN DictGet(user_inputs, condition.input)
  ELSE None

\* CondResult without the return False of line 221: a node without a stored
\* response does not fail the condition
CondResultAbsentPasses(condition, sub) ==
  [result |-> IF sub.err THEN "raise"
              ELSE IF condition.node # "" /\ condition.node \notin DOMAIN responses
              THEN "true"
              ELSE _evaluate_operator(condition.operator, ActualValue(condition), sub.v),
   g |-> sub.g]

\* CondResult raising, as a KeyError would, where line 221 returns False
CondResultAbsentRaises(condition, sub) ==
  [result |-> IF sub.err THEN "raise"
              ELSE IF condition.node # "" /\ condition.node \notin DOMAIN responses
              THEN "raise"
              ELSE _evaluate_operator(condition.operator, ActualValue(condition), sub.v),
   g |-> sub.g]

\* a condition on a node without a stored response returns False before
\* any operator is evaluated
CondResult(condition, sub) ==
  [result |-> IF sub.err THEN "raise"
              ELSE IF condition.node # "" /\ condition.node \notin DOMAIN responses
              THEN "false"
              ELSE _evaluate_operator(condition.operator, ActualValue(condition), sub.v),
   g |-> sub.g]

\* one round of the loop over the conditions: [result, g]
EvalCondition(condition, now, g) ==
  CondResult(condition, SubExpected(condition.value, now, g))

Reached(r, evaluated) == [result |-> r.result, evaluated |-> evaluated, g |-> r.g]

RECURSIVE EvalLoopToEnd(_, _, _)
\* EvalLoop without the return False of line 238: every condition is
\* evaluated and the last one decides
EvalLoopToEnd(conditions, now, last) ==
  IF last.result = "raise" \/ conditions = <<>> THEN last
  ELSE EvalLoopToEnd(Tail(conditions), now,
                     Reached(EvalCondition(conditions[1], now, last.g),
                             last.evaluated + 1))

RECURSIVE EvalLoop(_, _, _)
\* last: the outcome of the rounds so far, [result, evaluated, g], evaluated
\* the number of conditions the loop has reached
EvalLoop(conditions, now, last) ==
  IF last.result # "true" \/ conditions = <<>> THEN last
  ELSE EvalLoop(Tail(conditions), now,
                Reached(EvalCondition(conditions[1], now, last.g), last.evaluated + 1))

evaluate_conditions(node, now, g) ==
  EvalLoop(node.conditions, now, [result |-> "true", evaluated |-> 0, g |-> g])

(* ------------------------------------------------------------------ *)
(* validate_response                                                    *)
(* ------------------------------------------------------------------ *)
StatusError(expected, actual) ==
  [rule |-> "httpStatusCode", field |-> <<>>, expected |-> expected, actual |-> actual]
FieldError(field_path, expected, actual) ==
  [rule |-> "field", field |-> field_path, expected |-> expected, actual |-> actual]
NotFoundError(field_path) ==
  [rule |-> "exists", field |-> field_path, expected |-> None, actual |-> None]

Status200 ==
  [hasStatus |-> TRUE, httpStatusCode |-> IntV(200), hasField |-> FALSE,
   field |-> <<>>, hasJsonpath |-> FALSE, operator |-> "", value |-> None]

\* OrStatus200 without lines 288-289: an empty list stays empty
OrStatus200Never(validations) == validations

\* no validations specified: default to status 200
OrStatus200(validations) == IF validations = <<>> THEN <<Status200>> ELSE validations

\* CollectValidations without the test of line 281: the defaults always apply
CollectValidationsAlways(node) ==
  OrStatus200(config.defaults.validations \o node.validations)

\* the validations collected for a node
CollectValidations(node) ==
  OrStatus200((IF ~node.skipDefaultValidations
               THEN config.defaults.validations ELSE <<>>)
              \o node.validations)

\* StatusErrors without the comparison at line 298: no status is ever wrong
StatusErrorsNone(validation, actual_status) == <<>>

StatusErrors(validation, actual_status) ==
  IF validation.hasStatus /\ ~PyEq(actual_status, validation.httpStatusCode)
  THEN <<StatusError(validation.httpStatusCode, actual_status)>>
  ELSE <<>>

FieldErrors(validation, expected_value, actual_value) ==
  IF ~validation.hasField THEN <<>>
  ELSE IF expected_value.t # "null"
       THEN IF ~PyEq(actual_value, expected_value)
            THEN <<FieldError(validation.field, expected_value, actual_value)>>
            ELSE <<>>
       ELSE IF actual_value.t = "null"
            THEN <<NotFoundError(validation.field)>>
            ELSE <<>>

ValidationResult(validation, response_data, sub) ==
  [errors |-> StatusErrors(validation, DictGet(response_data.c, "_status_code"))
              \o FieldErrors(validation, sub.v,
                             extract_field(BodyOf(response_data), validation.field)),
   g |-> sub.g, raised |-> sub.err]

\* the errors one validation appends: [errors, g]
CheckValidation(validation, response_data, now, g) ==
  ValidationResult(validation, response_data,
                   SubExpected(IF validation.hasField THEN validation.value ELSE None,
                               now, g))

AddErrors(done, r) ==
  [errors |-> done.errors \o r.errors, g |-> r.g, raised |-> r.raised]

RECURSIVE ValidateLoop(_, _, _, _)
\* done: [errors, g, raised] of the validations checked so far
ValidateLoop(validations, response_data, now, done) ==
  IF done.raised \/ validations = <<>> THEN done
  ELSE ValidateLoop(Tail(validations), response_data, now,
                    AddErrors(done, CheckValidation(validations[1], response_data,
                                                    now, done.g)))

\* [errors, g, raised]: raised where an exception leaves the function
validate_response(node, response_data, now, g) ==
  ValidateLoop(CollectValidations(node), response_data, now,
               [errors |-> <<>>, g |-> g, raised |-> FALSE])

(* ------------------------------------------------------------------ *)
(* build_url, build_headers, build_body                                 *)
(* ------------------------------------------------------------------ *)
\* text.startswith(prefix)
StartsWith(text, prefix) ==
  /\ Len(text) >= Len(prefix)
  /\ SubSeq(text, 1, Len(prefix)) = prefix

RECURSIVE RStripSlash(_)
\* text.rstrip('/')
RStripSlash(text) ==
  IF Len(text) > 0 /\ SubSeq(text, Len(text), Len(text)) = "/"
  THEN RStripSlash(SubSeq(text, 1, Len(text) - 1))
  ELSE text

RECURSIVE LStripSlash(_)
\* text.lstrip('/')
LStripSlash(text) ==
  IF Len(text) > 0 /\ SubSeq(text, 1, 1) = "/"
  THEN LStripSlash(SubSeq(text, 2, Len(text)))
  ELSE text

\* the base URL prepended to every URL
WithBaseAlways(url) ==
  RStripSlash(config.defaults.baseUrl) \o "/" \o LStripSlash(url)

\* the base URL prepended to a relative URL
WithBase(url) ==
  IF ~StartsWith(url, "http://") /\ ~StartsWith(url, "https://")
  THEN RStripSlash(config.defaults.baseUrl) \o "/" \o LStripSlash(url)
  ELSE url

UrlResult(sub) == [url |-> WithBase(Text(sub.v.s)), g |-> sub.g, err |-> sub.err]

\* [url, g, err]: url is the text of the URL
build_url(node, now, g) ==
  UrlResult(substitute_variables(StrV(node.url), NoTimestamp, <<now>>, g))

RECURSIVE DictUpdate(_, _)
\* d.update(e): a key of d keeps its place and takes e's value, a new key
\* is appended
DictUpdate(d, e) ==
  IF e = <<>> THEN d
  ELSE DictUpdate(
         IF HasKey(d, e[1].k)
         THEN [j \in 1..Len(d) |-> IF d[j].k = e[1].k THEN e[1] ELSE d[j]]
         ELSE Append(d, e[1]),
         Tail(e))

\* the merged headers, the defaults overriding the node's
MergedHeadersDefaultsWin(node) ==
  DictUpdate(node.headers,
             IF ~node.skipDefaultHeaders THEN config.defaults.headers ELSE <<>>)

\* the merged headers before substitution
MergedHeaders(node) ==
  DictUpdate(IF ~node.skipDefaultHeaders THEN config.defaults.headers ELSE <<>>,
             node.headers)

HeadersResult(sub) ==
  [headers |-> sub.v, used |-> sub.used, g |-> sub.g, err |-> sub.err]

\* [headers, used, g, err]
build_headers(node, reads, g) ==
  HeadersResult(substitute_variables(DictV(MergedHeaders(node)), NoTimestamp, reads, g))

RECURSIVE JsonDumps(_)
RECURSIVE JsonItems(_, _)
\* json.dumps(value)
JsonDumps(value) ==
  CASE value.t = "null" -> "null"
    [] value.t = "int" -> ToString(value.n)
    [] value.t = "bool" -> IF value.n = 1 THEN "true" ELSE "false"
    [] value.t = "str" -> "\"" \o Text(value.s) \o "\""
    [] value.t = "list" -> "[" \o JsonItems(value.c, FALSE) \o "]"
    [] OTHER -> "{" \o JsonItems(value.c, TRUE) \o "}"

JsonItems(items, keyed) ==
  IF items = <<>> THEN ""
  ELSE (IF keyed THEN "\"" \o items[1].k \o "\": " ELSE "")
       \o JsonDumps(items[1].v)
       \o (IF Len(items) > 1 THEN ", " ELSE "")
       \o JsonItems(Tail(items), keyed)

BodyResult(sub) ==
  [body |-> IF sub.v.t = "dict"
            THEN StrV(<<Lit(JsonDumps(sub.v))>>)
            ELSE StrV(<<Lit(Text(PyStr(sub.v)))>>),
   used |-> sub.used, g |-> sub.g, err |-> sub.err]

\* [body, used, g, err]: body is None or the text of the body
build_body(node, reads, g) ==
  IF node.body.t = "null" THEN [body |-> None, used |-> 0, g |-> g, err |-> FALSE]
  ELSE BodyResult(substitute_variables(node.body, NoTimestamp, reads, g))

(* ------------------------------------------------------------------ *)
(* Configurations                                                       *)
(* ------------------------------------------------------------------ *)
S(text) == StrV(<<Lit(text)>>)

Condition(node, variable, input, field, operator, value) ==
  [node |-> node, variable |-> variable, input |-> input, field |-> field,
   operator |-> operator, value |-> value]

StatusIs(code) == [Status200 EXCEPT !.httpStatusCode = IntV(code)]
FieldIs(field_path, operator, value) ==
  [hasStatus |-> FALSE, httpStatusCode |-> None, hasField |-> TRUE,
   field |-> field_path, hasJsonpath |-> FALSE, operator |-> operator, value |-> value]
\* a validation that names its field under the key jsonpath
JsonpathIs(field_path, operator, value) ==
  [hasStatus |-> FALSE, httpStatusCode |-> None, hasField |-> FALSE,
   field |-> field_path, hasJsonpath |-> TRUE, operator |-> operator, value |-> value]

\* the variables of every configuration, in insertion order
Variables ==
  <<KV("first", StrV(<<VarsTok("x")>>)),
    KV("x", S("7")),
    KV("code", IntV(200)),
    KV("one", IntV(1)),
    KV("ref", StrV(<<RespTok("A", <<Key("_status_code")>>)>>)),
    KV("t", StrV(<<TimestampTok>>)),
    KV("in", StrV(<<InputTok("who")>>)),
    KV("dir", S("c:\\\\t")),
    KV("home", S("http://h/"))>>

\* the same with a Windows path, which re.sub cannot read as a replacement
WithPath == Append(Variables, KV("path", S("C:\\dir")))

VariableSets == {Variables, WithPath}

Defaults(validations) ==
  [baseUrl |-> "https://api/",
   headers |-> <<KV("Accept", S("json")), KV("X-T", S("none"))>>,
   validations |-> validations]

\* prompts for who, skipped as long as A has not run
NodeE ==
  [id |-> "E", url |-> <<Lit("/e/"), InputTok("who")>>,
   headers |-> <<>>, skipDefaultHeaders |-> TRUE, body |-> None,
   conditions |-> <<Condition("A", "", "", <<Key("id")>>, "exists", None)>>,
   validations |-> <<>>, skipDefaultValidations |-> FALSE,
   userPrompts |-> <<"who">>]

\* accepts every status as long as the body has an id
NodeA ==
  [id |-> "A", url |-> <<Lit("/a/"), TimestampTok>>,
   headers |-> <<KV("X-T", StrV(<<TimestampTok>>))>>, skipDefaultHeaders |-> FALSE,
   body |-> DictV(<<KV("t1", StrV(<<TimestampTok>>)), KV("t2", StrV(<<TimestampTok>>))>>),
   conditions |-> <<>>,
   validations |-> <<FieldIs(<<Key("id")>>, "exists", None)>>,
   skipDefaultValidations |-> TRUE,
   userPrompts |-> <<>>]

\* runs only when A answered 404; a header of it indexes into A's id; it
\* skips the default validations and has none of its own
NodeC ==
  [id |-> "C", url |-> <<Lit("/c")>>,
   headers |-> <<KV("X-C", StrV(<<RespTok("A", <<Key("body"), KeyIdx("id", 0)>>)>>))>>,
   skipDefaultHeaders |-> FALSE, body |-> None,
   conditions |-> <<Condition("A", "", "", <<>>, "statusCode", IntV(404))>>,
   validations |-> <<>>, skipDefaultValidations |-> TRUE,
   userPrompts |-> <<>>]

\* addresses the user A's response names; prompts for pin; expects 201
NodeB ==
  [id |-> "B", url |-> <<Lit("/users/"), RespTok("A", <<Key("id")>>)>>,
   headers |-> <<>>, skipDefaultHeaders |-> FALSE, body |-> StrV(<<GuidTok>>),
   conditions |-> <<>>,
   validations |-> <<StatusIs(201)>>, skipDefaultValidations |-> TRUE,
   userPrompts |-> <<"pin">>]

\* depends on C and on A's id, and compares C's status with a placeholder;
\* its url mixes the placeholder kinds
NodeD ==
  [id |-> "D",
   url |-> <<RespTok("A", <<Key("body"), Key("id")>>), Lit("-"), VarsTok("x"),
             Lit("/"), VarsTok("ref"), Lit("/"), VarsTok("nope"),
             Lit("/"), VarsTok("t"), Lit("/"), VarsTok("in"),
             Lit("/"), InputTok("who")>>,
   headers |-> <<KV("X-Id", StrV(<<GuidTok, Lit(":"), GuidTok>>))>>,
   skipDefaultHeaders |-> FALSE, body |-> None,
   conditions |-> <<Condition("C", "", "", <<Key("id")>>, "exists", None),
                    Condition("A", "", "", <<Key("id")>>, "lessThan", IntV(100)),
                    Condition("C", "", "", <<>>, "statusCode", StrV(<<VarsTok("code")>>))>>,
   validations |-> <<>>, skipDefaultValidations |-> FALSE,
   userPrompts |-> <<>>]

\* its url names an undefined variable, a node that never runs and a field
\* A's body does not have, next to placeholders that resolve; its
\* conditions compare variables with a placeholder, a boolean and a
\* number; its own validations come after the defaults
NodeF ==
  [id |-> "F",
   url |-> <<Lit("/f/"), VarsTok("nope"), Lit("/"), VarsTok("dir"),
             Lit("/"), RespTok("Z", <<Key("id")>>),
             Lit("/"), RespTok("A", <<Key("body"), Key("zz")>>),
             Lit("/"), VarsTok("x"),
             Lit("/"), RespTok("A", <<Key("body"), Key("id")>>)>>,
   headers |-> <<>>, skipDefaultHeaders |-> FALSE, body |-> None,
   conditions |-> <<Condition("", "code", "", <<>>, "notEquals", StrV(<<VarsTok("code")>>)),
                    Condition("", "one", "", <<>>, "equals", BoolV(TRUE)),
                    Condition("", "code", "", <<>>, "equals", IntV(200))>>,
   validations |-> <<StatusIs(201), FieldIs(<<Key("id")>>, "exists", None)>>,
   skipDefaultValidations |-> FALSE,
   userPrompts |-> <<>>]

\* its url is absolute once the variable home is resolved; its validations
\* declare operators: id > 0, id contains 42, and, by jsonpath, id equals 5
NodeG ==
  [id |-> "G", url |-> <<VarsTok("home"), Lit("g")>>,
   headers |-> <<KV("X-G", StrV(<<VarsTok("first"), Lit("|"), VarsTok("in"),
                                  Lit("|"), VarsTok("ref"), Lit("|"),
                                  RespTok("A", <<Key("body"), Key("tpl")>>),
                                  Lit("|"),
                                  RespTok("A", <<Key("body"), Key("id")>>)>>))>>, skipDefaultHeaders |-> FALSE, body |-> None,
   conditions |-> <<>>,
   validations |-> <<FieldIs(<<Key("id")>>, "greaterThan", IntV(0)),
                     FieldIs(<<Key("id")>>, "contains", IntV(42)),
                     JsonpathIs(<<Key("id")>>, "equals", IntV(5))>>,
   skipDefaultValidations |-> TRUE,
   userPrompts |-> <<>>]

\* the nodes configurations are made of, in the order they keep
Pool == <<NodeE, NodeA, NodeC, NodeB, NodeD, NodeF, NodeG>>

\* the members of pool picked by the set of positions picks, in pool order
RECURSIVE Pick(_, _, _)
Pick(pool, picks, j) ==
  IF j > Len(pool) THEN <<>>
  ELSE (IF j \in picks THEN <<pool[j]>> ELSE <<>>) \o Pick(pool, picks, j + 1)

NodeLists ==
  {Pick(Pool, picks, 1) : picks \in {q \in SUBSET (1..Len(Pool)) :
                                       Cardinality(q) \in 1..MaxNodes}}

DefaultValidations ==
  {<<>>, <<StatusIs(200)>>,
   <<StatusIs(200), FieldIs(<<Key("id")>>, "exists", None)>>}

Configs ==
  {[defaults |-> Defaults(dv), variables |-> vs, nodes |-> nodes] :
     dv \in DefaultValidations, vs \in VariableSets, nodes \in NodeLists}

\* what the transport can answer
Body42 == DictV(<<KV("id", IntV(42))>>)
\* a server answering text that reads as a placeholder
BodyTpl ==
  DictV(<<KV("id", StrV(<<VarsTok("x")>>)),
          KV("tpl", StrV(<<InputTok("who"), GuidTok, TimestampTok>>))>>)
BodyEmpty == DictV(<<>>)
Answers ==
  {[status |-> 200, body |-> Body42], [status |-> 200, body |-> BodyTpl],
   [status |-> 201, body |-> Body42], [status |-> 404, body |-> Body42],
   [status |-> 404, body |-> BodyTpl], [status |-> 404, body |-> BodyEmpty]}

\* what the user can type at a prompt
InputValues == {S("bob"), StrV(<<RespTok("A", <<Key("_status_code")>>)>>)}

(* ------------------------------------------------------------------ *)
(* BaseGenerator: validate_config, load_config, generate                *)
(* ------------------------------------------------------------------ *)
\* longest nodes array of a configuration handed to a generator
MaxRawNodes == 2

\* the upper-case letter of ch, the letters being first the small ones and
\* then the capitals
UpperCh(ch) ==
  IF \E j \in 1..26 : SubSeq(Letters, j, j) = ch
  THEN SubSeq(Letters, 26 + (CHOOSE j \in 1..26 : SubSeq(Letters, j, j) = ch),
                       26 + (CHOOSE j \in 1..26 : SubSeq(Letters, j, j) = ch))
  ELSE ch

RECURSIVE Upper(_, _, _)
\* str.upper() of text from position j on, after acc
Upper(text, j, acc) ==
  IF j > Len(text) THEN acc
  ELSE Upper(text, j + 1, acc \o UpperCh(SubSeq(text, j, j)))

valid_methods == {"GET", "POST", "PUT", "DELETE", "PATCH"}
required_fields == <<"id", "name", "method", "url">>

Valid == [valid |-> TRUE, msg |-> "", raised |-> ""]
Invalid(error_message) == [valid |-> FALSE, msg |-> error_message, raised |-> ""]
Raises(exception) == [valid |-> FALSE, msg |-> "", raised |-> exception]

\* 'nodes' in config: [ok, has]; ok FALSE where Python raises TypeError
NodesIn(config_value) ==
  CASE config_value.t = "dict" -> [ok |-> TRUE, has |-> HasKey(config_value.c, "nodes")]
    [] config_value.t = "list" ->
         [ok |-> TRUE,
          has |-> \E j \in 1..Len(config_value.c) :
                    PyEq(config_value.c[j].v, StrV(<<Lit("nodes")>>))]
    [] config_value.t = "str" ->
         [ok |-> TRUE,
          has |-> \E j \in 1..(Len(Text(config_value.s)) - 4) :
                    SubSeq(Text(config_value.s), j, j + 4) = "nodes"]
    [] OTHER -> [ok |-> FALSE, has |-> FALSE]

\* the first of the fields from position j on that node lacks, or ""
MissingField(node, j) ==
  IF \E f \in j..Len(required_fields) : ~HasKey(node.c, required_fields[f])
  THEN required_fields[CHOOSE f \in j..Len(required_fields) :
                         /\ ~HasKey(node.c, required_fields[f])
                         /\ \A e \in j..(f - 1) : HasKey(node.c, required_fields[e])]
  ELSE ""

\* the method check of one node
CheckMethod(node) ==
  IF Get(node.c, "method").t # "str" THEN Raises("AttributeError")
  ELSE IF Upper(Text(Get(node.c, "method").s), 1, "") \notin valid_methods
  THEN Invalid("Node " \o Text(PyStr(Get(node.c, "id"))) \o ": invalid method '"
               \o Upper(Text(Get(node.c, "method").s), 1, "")
               \o "'. Must be one of: GET, POST, PUT, DELETE, PATCH")
  ELSE Valid

\* one turn of the loop over the nodes: node is at index i, counted from 0
CheckNode(node, i, seen_ids) ==
  IF node.t # "dict"
  THEN Invalid("Node at index " \o ToString(i) \o " must be an object")
  ELSE IF MissingField(node, 1) # ""
  THEN Invalid("Node at index " \o ToString(i) \o " missing required field: "
               \o MissingField(node, 1))
  ELSE IF Get(node.c, "id").t \in {"list", "dict"}
  THEN Raises("TypeError")
  ELSE IF \E k \in 1..Len(seen_ids) : PyEq(seen_ids[k], Get(node.c, "id"))
  THEN Invalid("Duplicate node ID: " \o Text(PyStr(Get(node.c, "id"))))
  ELSE CheckMethod(node)

RECURSIVE CheckNodes(_, _, _)
\* the loop over the nodes from index i on
CheckNodes(nodes, i, seen_ids) ==
  IF i >= Len(nodes) THEN Valid
  ELSE IF CheckNode(nodes[i + 1].v, i, seen_ids) # Valid
  THEN CheckNode(nodes[i + 1].v, i, seen_ids)
  ELSE CheckNodes(nodes, i + 1, Append(seen_ids, Get(nodes[i + 1].v.c, "id")))

validate_config(config_value) ==
  IF ~NodesIn(config_value).ok THEN Raises("TypeError")
  ELSE IF ~NodesIn(config_value).has THEN Invalid("Config must contain 'nodes' array")
  ELSE IF config_value.t # "dict" THEN Raises("AttributeError")
  ELSE IF Get(config_value.c, "nodes").t # "list" THEN Invalid("'nodes' must be an array")
  ELSE IF Get(config_value.c, "nodes").c = <<>>
  THEN Invalid("'nodes' array cannot be empty")
  ELSE CheckNodes(Get(config_value.c, "nodes").c, 0, <<>>)

\* what validate_config's callers make of its result
RaiseIfInvalid(checked) ==
  IF checked.raised # "" \/ checked.valid THEN checked
  ELSE [valid |-> FALSE, msg |-> "Invalid configuration: " \o checked.msg,
        raised |-> "ValueError"]

\* config_str is [json, value]: json tells whether the text is JSON, and
\* value is the value that json.loads makes of it
load_config(config_str) ==
  IF ~config_str.json
  THEN [valid |-> FALSE, msg |-> "Invalid JSON", raised |-> "ValueError"]
  ELSE RaiseIfInvalid(validate_config(config_str.value))

\* generate, up to the rendering of the template
generate(config_value) == RaiseIfInvalid(validate_config(config_value))

\* the configurations handed to a generator
RawNode(id, method) ==
  DictV(<<KV("id", id), KV("name", StrV(<<Lit("N")>>)), KV("method", method),
          KV("url", StrV(<<Lit("/")>>))>>)

Lacking(field) ==
  DictV(SelectSeq(RawNode(StrV(<<Lit("c")>>), StrV(<<Lit("GET")>>)).c,
                  LAMBDA item : item.k # field))

RawNodes ==
  { RawNode(StrV(<<Lit("a")>>), StrV(<<Lit("GET")>>)),
    RawNode(StrV(<<Lit("b")>>), StrV(<<Lit("POST")>>)),
    RawNode(StrV(<<Lit("a")>>), StrV(<<Lit("PATCH")>>)),
    RawNode(StrV(<<Lit("d")>>), StrV(<<Lit("FETCH")>>)),
    RawNode(StrV(<<Lit("e")>>), StrV(<<Lit("get")>>)),
    RawNode(StrV(<<Lit("f")>>), IntV(5)),
    RawNode(ListV(<<>>), StrV(<<Lit("GET")>>)),
    IntV(5) }
  \cup {Lacking(required_fields[f]) : f \in 1..Len(required_fields)}

RawConfigs ==
  {DictV(<<KV("nodes", ListV(l))>>) :
     l \in UNION {[1..n -> {KV("", node) : node \in RawNodes}] : n \in 0..MaxRawNodes}}
  \cup { DictV(<<KV("name", StrV(<<Lit("Test")>>))>>),
         DictV(<<KV("nodes", DictV(<<>>))>>),
         DictV(<<KV("nodes", StrV(<<Lit("abc")>>))>>),
         ListV(<<>>), StrV(<<Lit("nodes")>>), None }

Givens ==
  {[json |-> TRUE, value |-> c] : c \in RawConfigs} \cup {[json |-> FALSE, value |-> None]}

NoGiven == [json |-> FALSE, value |-> None]
NoOutcome == [op |-> "", valid |-> FALSE, msg |-> "", raised |-> "", ran |-> FALSE]
Outcome(op, r) ==
  [op |-> op, valid |-> r.valid, msg |-> r.msg, raised |-> r.raised, ran |-> FALSE]

(* ------------------------------------------------------------------ *)
(* The run: Prompt, Substitute, Evaluate-Conditions, Execute-HTTP,      *)
(* Validate, Store-Response for each node in turn                       *)
(* ------------------------------------------------------------------ *)
NoRequest == [url |-> "", headers |-> DictV(<<>>), body |-> None]
NoFailure == [node |-> "", kind |-> "", errors |-> <<>>]
NoVerdict == [i |-> 0, result |-> "", evaluated |-> 0]
Event(ev) == [ev |-> ev, i |-> idx]

\* the node being processed
Node == config.nodes[idx]

\* what n successive calls of generate_timestamp can return
Reads(n) ==
  {r \in [1..n -> clock..MaxClock] : \A j \in 1..(n - 1) : r[j] <= r[j + 1]}

\* the times at which a substitution of n strings, all at once, can happen
Nows(n) == IF n > 0 THEN clock..MaxClock ELSE {clock}

Init ==
  /\ config \in Configs
  /\ variables = config.variables
  /\ responses = <<>>
  /\ user_inputs = <<>>
  /\ clock = 1
  /\ guids = 0
  /\ pc = "prompt"
  /\ idx = 1
  /\ request = NoRequest
  /\ response = None
  /\ failure = NoFailure
  /\ verdict = NoVerdict
  /\ trace = <<>>
  /\ given = NoGiven
  /\ outcome = NoOutcome

\* the values the user types for the prompts names
Collected(names) ==
  {[j \in 1..Len(names) |-> KV(names[j], typed[j])] :
     typed \in [1..Len(names) -> InputValues]}

\* Prompt adding what is typed to what was typed before
PromptKeeping ==
  /\ pc = "prompt"
  /\ IF Node.userPrompts # <<>>
     THEN \E typed \in Collected(Node.userPrompts) : user_inputs' = user_inputs \o typed
     ELSE UNCHANGED user_inputs
  /\ pc' = "substitute"
  /\ trace' = Append(trace, Event("prompt"))
  /\ UNCHANGED <<given, outcome, verdict, config, variables, responses, clock, guids, idx, request,
                 response, failure>>

Prompt ==
  /\ pc = "prompt"
  /\ IF Node.userPrompts # <<>>
     THEN user_inputs' \in Collected(Node.userPrompts)
     ELSE UNCHANGED user_inputs
  /\ pc' = "substitute"
  /\ trace' = Append(trace, Event("prompt"))
  /\ UNCHANGED <<given, outcome, verdict, config, variables, responses, clock, guids, idx, request,
                 response, failure>>

\* Substitute with build_headers merging into the defaults' own headers
SubstituteLeaking ==
  /\ pc = "substitute"
  /\ \E reads \in Reads(1 + ItemLeaves(MergedHeaders(Node)) + StrLeaves(Node.body)) :
     \E u \in {build_url(Node, reads[1], guids)} :
     \E h \in {build_headers(Node, SubSeq(reads, 2, Len(reads)), u.g)} :
     \E b \in {build_body(Node, SubSeq(reads, 2 + h.used, Len(reads)), h.g)} :
       /\ guids' = b.g
       /\ clock' = reads[Len(reads)]
       /\ IF u.err \/ h.err \/ b.err
          THEN /\ pc' = "crashed"
               /\ request' = request
               /\ failure' = [node |-> Node.id, kind |-> "exception", errors |-> <<>>]
               /\ trace' = trace \o <<Event("substitute"), Event("crash")>>
          ELSE /\ pc' = "evaluate"
               /\ request' = [url |-> u.url, headers |-> h.headers, body |-> b.body]
               /\ failure' = failure
               /\ trace' = Append(trace, Event("substitute"))
  /\ config' = [config EXCEPT !.defaults.headers = MergedHeaders(Node)]
  /\ UNCHANGED <<given, outcome, verdict, variables, responses, user_inputs, idx, response>>

Substitute ==
  /\ pc = "substitute"
  /\ \E reads \in Reads(1 + ItemLeaves(MergedHeaders(Node)) + StrLeaves(Node.body)) :
     \E u \in {build_url(Node, reads[1], guids)} :
     \E h \in {build_headers(Node, SubSeq(reads, 2, Len(reads)), u.g)} :
     \E b \in {build_body(Node, SubSeq(reads, 2 + h.used, Len(reads)), h.g)} :
       /\ guids' = b.g
       /\ clock' = reads[Len(reads)]
       /\ IF u.err \/ h.err \/ b.err
          THEN /\ pc' = "crashed"
               /\ request' = request
               /\ failure' = [node |-> Node.id, kind |-> "exception", errors |-> <<>>]
               /\ trace' = trace \o <<Event("substitute"), Event("crash")>>
          ELSE /\ pc' = "evaluate"
               /\ request' = [url |-> u.url, headers |-> h.headers, body |-> b.body]
               /\ failure' = failure
               /\ trace' = Append(trace, Event("substitute"))
  /\ UNCHANGED <<given, outcome, verdict, config, variables, responses, user_inputs, idx, response>>

\* Advance starting the current node again
AdvanceAgain == idx' = idx /\ pc' = "prompt"

\* the step after the current node: the next node, or the end of the run
Advance ==
  IF idx < Len(config.nodes)
  THEN idx' = idx + 1 /\ pc' = "prompt"
  ELSE idx' = idx /\ pc' = "done"

RECURSIVE ConditionLeaves(_)
ConditionLeaves(conditions) ==
  IF conditions = <<>> THEN 0
  ELSE StrLeaves(conditions[1].value) + ConditionLeaves(Tail(conditions))

Evaluate ==
  /\ pc = "evaluate"
  /\ \E now \in Nows(ConditionLeaves(Node.conditions)) :
     \E r \in {evaluate_conditions(Node, now, guids)} :
       /\ guids' = r.g
       /\ clock' = now
       /\ verdict' = [i |-> idx, result |-> r.result, evaluated |-> r.evaluated]
       /\ CASE r.result = "true" ->
                 /\ pc' = "send" /\ idx' = idx
                 /\ failure' = failure
                 /\ trace' = Append(trace, Event("evaluate"))
            [] r.result = "false" ->
                 /\ Advance
                 /\ failure' = failure
                 /\ trace' = trace \o <<Event("evaluate"), Event("skip")>>
            [] OTHER ->
                 /\ pc' = "crashed" /\ idx' = idx
                 /\ failure' = [node |-> Node.id, kind |-> "exception", errors |-> <<>>]
                 /\ trace' = trace \o <<Event("evaluate"), Event("crash")>>
  /\ UNCHANGED <<given, outcome, config, variables, responses, user_inputs, request, response>>

\* Send going on to the next node without awaiting the answer
SendAndGoOn ==
  /\ pc = "send"
  /\ Advance
  /\ trace' = Append(trace, Event("send"))
  /\ UNCHANGED <<given, outcome, verdict, config, variables, responses, user_inputs, clock, guids,
                 request, response, failure>>

Send ==
  /\ pc = "send"
  /\ pc' = "await"
  /\ trace' = Append(trace, Event("send"))
  /\ UNCHANGED <<given, outcome, verdict, config, variables, responses, user_inputs, clock, guids, idx,
                 request, response, failure>>

Receive ==
  /\ pc = "await"
  /\ \E answer \in Answers :
       response' = DictV(<<KV("body", answer.body),
                           KV("_status_code", IntV(answer.status))>>)
  /\ pc' = "validate"
  /\ trace' = Append(trace, Event("receive"))
  /\ UNCHANGED <<given, outcome, verdict, config, variables, responses, user_inputs, clock, guids, idx,
                 request, failure>>

\* TransportError taking the node as skipped and going on
TransportErrorSkips ==
  /\ pc = "await"
  /\ Advance
  /\ trace' = Append(trace, Event("skip"))
  /\ UNCHANGED <<given, outcome, verdict, config, variables, responses, user_inputs, clock, guids,
                 request, response, failure>>

TransportError ==
  /\ pc = "await"
  /\ pc' = "aborted"
  /\ failure' = [node |-> Node.id, kind |-> "transport", errors |-> <<>>]
  /\ trace' = Append(trace, Event("abort"))
  /\ UNCHANGED <<given, outcome, verdict, config, variables, responses, user_inputs, clock, guids, idx,
                 request, response>>

RECURSIVE ValidationLeaves(_)
ValidationLeaves(validations) ==
  IF validations = <<>> THEN 0
  ELSE (IF validations[1].hasField THEN StrLeaves(validations[1].value) ELSE 0)
       + ValidationLeaves(Tail(validations))

Validate ==
  /\ pc = "validate"
  /\ \E now \in Nows(ValidationLeaves(CollectValidations(Node))) :
     \E r \in {validate_response(Node, response, now, guids)} :
       /\ guids' = r.g
       /\ clock' = now
       /\ IF r.raised
          THEN /\ pc' = "crashed"
               /\ failure' = [node |-> Node.id, kind |-> "exception", errors |-> <<>>]
               /\ trace' = trace \o <<Event("validate"), Event("crash")>>
          ELSE IF r.errors = <<>>
          THEN /\ pc' = "store"
               /\ failure' = failure
               /\ trace' = Append(trace, Event("validate"))
          ELSE /\ pc' = "aborted"
               /\ failure' = [node |-> Node.id, kind |-> "validation",
                              errors |-> r.errors]
               /\ trace' = trace \o <<Event("validate"), Event("abort")>>
  /\ UNCHANGED <<given, outcome, verdict, config, variables, responses, user_inputs, idx, request, response>>

\* Store keeping no response
StoreNothing ==
  /\ pc = "store"
  /\ Advance
  /\ trace' = Append(trace, Event("store"))
  /\ UNCHANGED <<given, outcome, verdict, config, variables, responses, user_inputs, clock, guids,
                 request, response, failure>>

\* Store keeping the current node's response only
StoreForgetting ==
  /\ pc = "store"
  /\ responses' = [id \in {Node.id} |-> response]
  /\ Advance
  /\ trace' = Append(trace, Event("store"))
  /\ UNCHANGED <<given, outcome, verdict, config, variables, user_inputs, clock, guids,
                 request, response, failure>>

Store ==
  /\ pc = "store"
  /\ responses' = [id \in DOMAIN responses \cup {Node.id} |->
                     IF id = Node.id THEN response ELSE responses[id]]
  /\ Advance
  /\ trace' = Append(trace, Event("store"))
  /\ UNCHANGED <<given, outcome, verdict, config, variables, user_inputs, clock, guids, request, response,
                 failure>>

Next ==
  \/ Prompt
  \/ Substitute
  \/ Evaluate
  \/ Send
  \/ Receive
  \/ TransportError
  \/ Validate
  \/ Store

Spec == Init /\ [][Next]_vars

\* every prompt returns, every request is answered or raises a transport
\* error, a request that was built is sent and a response that passed is
\* stored; the steps that only compute (substitution, the conditions, the
\* validations) run to their end, as they loop over finite data only
FairSpec ==
  /\ Spec
  /\ WF_vars(Prompt)
  /\ WF_vars(Send)
  /\ WF_vars(Receive \/ TransportError)
  /\ WF_vars(Store)
  /\ []<>(pc \notin {"substitute", "evaluate", "validate"})


\* validate_response called on an executor of one node and a response: the
\* nodes of the pool, and G with a fourth validation that expects a text
ValInit ==
  /\ config \in {[defaults |-> Defaults(dv), variables |-> vs, nodes |-> <<node>>] :
                   dv \in DefaultValidations, vs \in VariableSets,
                   node \in {Pool[j] : j \in 1..Len(Pool)}
                            \cup {[NodeG EXCEPT !.validations =
                                     Append(@, FieldIs(<<Key("id")>>, "equals", S("42")))]}}
  /\ variables = config.variables
  /\ responses = <<>>
  /\ user_inputs = <<>>
  /\ clock = 1
  /\ guids = 0
  /\ pc = "validate"
  /\ idx = 1
  /\ request = NoRequest
  /\ response \in {DictV(<<KV("body", answer.body),
                           KV("_status_code", IntV(answer.status))>>) :
                     answer \in Answers}
  /\ failure = NoFailure
  /\ verdict = NoVerdict
  /\ trace = <<>>
  /\ given = NoGiven
  /\ outcome = NoOutcome

ValSpec == ValInit /\ [][Validate]_vars

\* a generator is handed a configuration; no run is in progress
GenInit ==
  /\ given \in Givens
  /\ outcome = NoOutcome
  /\ config = [variables |-> <<>>, defaults |-> Defaults(<<>>), nodes |-> <<>>]
  /\ variables = <<>>
  /\ responses = <<>>
  /\ user_inputs = <<>>
  /\ clock = 1
  /\ guids = 0
  /\ pc = "idle"
  /\ idx = 1
  /\ request = NoRequest
  /\ response = None
  /\ failure = NoFailure
  /\ verdict = NoVerdict
  /\ trace = <<>>

ValidateConfig ==
  /\ outcome.op = "" /\ given.json
  /\ outcome' = Outcome("validate_config", validate_config(given.value))
  /\ UNCHANGED <<config, variables, responses, user_inputs, clock, guids, pc, idx,
                 request, response, failure, verdict, trace, given>>

LoadConfig ==
  /\ outcome.op = ""
  /\ outcome' = Outcome("load_config", load_config(given))
  /\ UNCHANGED <<config, variables, responses, user_inputs, clock, guids, pc, idx,
                 request, response, failure, verdict, trace, given>>

Generate ==
  /\ outcome.op = "" /\ given.json
  /\ outcome' = Outcome("generate", generate(given.value))
  /\ UNCHANGED <<config, variables, responses, user_inputs, clock, guids, pc, idx,
                 request, response, failure, verdict, trace, given>>

\* the generated sequence is run: only generate hands one out
RunGenerated ==
  /\ outcome.op = "generate" /\ outcome.raised = "" /\ ~outcome.ran
  /\ outcome' = [outcome EXCEPT !.ran = TRUE]
  /\ UNCHANGED <<config, variables, responses, user_inputs, clock, guids, pc, idx,
                 request, response, failure, verdict, trace, given>>

GenNext ==
  \/ ValidateConfig
  \/ LoadConfig
  \/ Generate
  \/ RunGenerated

GenSpec == GenInit /\ [][GenNext]_vars

(* ------------------------------------------------------------------ *)
(* What a run has done so far, read off its trace                       *)
(* ------------------------------------------------------------------ *)
Nodes == 1..Len(config.nodes)
IdOf(i) == config.nodes[i].id
Did(ev, i) == \E j \in 1..Len(trace) : trace[j] = [ev |-> ev, i |-> i]
Count(ev, i) == Cardinality({j \in 1..Len(trace) : trace[j] = [ev |-> ev, i |-> i]})
NotReached(i) == \A j \in 1..Len(trace) : trace[j].i # i
Stored(i) == IdOf(i) \in DOMAIN responses
StatusOf(response_data) == Get(response_data.c, "_status_code").n
BodyItems(response_data) == Get(response_data.c, "body").c
RunEnded == pc \in {"done", "aborted", "crashed"}

\* the conditions of node i passed and its request was performed
Executed(i) == Did("evaluate", i) /\ ~Did("skip", i) /\ Did("send", i)

\* the validations that apply to a node: the defaults, unless the node
\* skips them, then its own
Applicable(node) ==
  (IF node.skipDefaultValidations THEN <<>> ELSE config.defaults.validations)
  \o node.validations

\* validation v is not met by response_data
Fails(v, response_data) ==
  \/ v.hasStatus /\ v.httpStatusCode.n # StatusOf(response_data)
  \/ /\ v.hasField /\ v.value = None /\ Len(v.field) = 1
     /\ ~HasKey(BodyItems(response_data), v.field[1].key)

\* errors tell what v expected and what response_data had
Reported(v, response_data, errors) ==
  \E j \in 1..Len(errors) :
    \/ /\ v.hasStatus
       /\ errors[j].rule = "httpStatusCode"
       /\ errors[j].expected = v.httpStatusCode
       /\ errors[j].actual = IntV(StatusOf(response_data))
    \/ /\ v.hasField
       /\ errors[j].rule = "exists"
       /\ errors[j].field = v.field

\* the response node i was validated against
ValidatedResponse(i) == IF Stored(i) THEN responses[IdOf(i)] ELSE response

\* C1: when a node's request completed and one of the validations that
\* apply to it is not met, the run is aborted at that node, the failure
\* reports for that node what was expected and what was got, and no later
\* node has been prompted, substituted, evaluated or sent.
C1_ValidationFailureAborts ==
  \A i \in Nodes : \A k \in 1..Len(Applicable(config.nodes[i])) :
    (Did("validate", i) /\ Fails(Applicable(config.nodes[i])[k], ValidatedResponse(i)))
    => /\ pc = "aborted" /\ idx = i
       /\ failure.node = IdOf(i) /\ failure.kind = "validation"
       /\ Reported(Applicable(config.nodes[i])[k], response, failure.errors)
       /\ ~Stored(i)
       /\ \A j \in 1..Len(trace) : trace[j].i <= i

\* B expected 201 and got 200, with a node after it that never starts
C1_Witness ==
  /\ pc = "aborted" /\ IdOf(idx) = "B" /\ idx < Len(config.nodes)
  /\ failure = [node |-> "B", kind |-> "validation",
                errors |-> <<StatusError(IntV(201), IntV(200))>>]
  /\ StatusOf(response) = 200

\* condition c holds in the responses and variables of the state
ConditionHolds(c) ==
  /\ c.node # "" =>
       /\ c.node \in DOMAIN responses
       /\ c.operator = "statusCode" => c.value = IntV(StatusOf(responses[c.node]))
       /\ c.operator = "exists" => HasKey(BodyItems(responses[c.node]), c.field[1].key)
       /\ c.operator = "lessThan" =>
            /\ Get(BodyItems(responses[c.node]), c.field[1].key).t = "int"
            /\ Get(BodyItems(responses[c.node]), c.field[1].key).n < c.value.n
  /\ (c.variable # "" /\ c.operator = "equals") => PyEq(Get(variables, c.variable), c.value)

\* C2: every key of responses is the id of a node whose conditions passed
\* and whose request was executed; a node that was skipped or has not been
\* reached has no entry.
C2_ResponsesOnlyForExecuted ==
  /\ \A key \in DOMAIN responses : \E i \in Nodes :
       /\ IdOf(i) = key
       /\ Executed(i) /\ Did("receive", i)
       /\ \A j \in 1..Len(config.nodes[i].conditions) :
            ConditionHolds(config.nodes[i].conditions[j])
  /\ \A i \in Nodes : (Did("skip", i) \/ NotReached(i)) => ~Stored(i)

\* one node skipped, a later one stored, a third not reached yet
C2_Witness ==
  \E i, j, n \in Nodes : /\ i < j /\ j < n
                         /\ Did("skip", i) /\ Stored(j) /\ NotReached(n)

C4_FalseConditionsSkip ==
  \A i \in Nodes :
    /\ (verdict.i = i /\ verdict.result = "false") => Did("skip", i)
    /\ Did("skip", i) =>
         /\ ~Did("send", i) /\ ~Stored(i) /\ failure.node # IdOf(i)
         /\ IF i < Len(config.nodes) THEN idx > i ELSE pc = "done"
    /\ ( /\ IdOf(i) = "C" /\ Did("evaluate", i)
         /\ "A" \in DOMAIN responses /\ StatusOf(responses["A"]) = 200 )
       => /\ Did("skip", i) /\ ~Did("send", i)
          /\ (i < Len(config.nodes) /\ IdOf(i + 1) = "B" /\ pc = "done")
             => Did("send", i + 1)

\* A answered 200, C was skipped, B was sent
C4_Witness ==
  /\ Len(config.nodes) = 3 /\ IdOf(1) = "A" /\ IdOf(2) = "C" /\ IdOf(3) = "B"
  /\ "A" \in DOMAIN responses /\ StatusOf(responses["A"]) = 200
  /\ Did("skip", 2) /\ Did("send", 3)

\* the requests sent and not yet answered, by a response or by a transport
\* error
Outstanding ==
  Cardinality({j \in 1..Len(trace) : trace[j].ev = "send"})
  - Cardinality({j \in 1..Len(trace) : trace[j].ev = "receive"})
  - (IF failure.kind = "transport" THEN 1 ELSE 0)

\* C5: nodes are processed in array order with at most one request
\* outstanding: a step of node n+1 happens only after node n has stored its
\* response or has been skipped, and the request of a node is sent at most
\* once.
C5_StrictlySequential ==
  /\ Outstanding \in {0, 1}
  /\ \A j \in 1..(Len(trace) - 1) : trace[j].i <= trace[j + 1].i
  /\ \A j \in 1..Len(trace) :
       trace[j].i > 1 =>
         \E k \in 1..(j - 1) : /\ trace[k].i = trace[j].i - 1
                               /\ trace[k].ev \in {"store", "skip"}
  /\ \A i \in Nodes : Count("send", i) <= 1

\* a run of three nodes to its end: the second skipped, the others stored
C5_Witness ==
  /\ pc = "done" /\ Len(config.nodes) = 3
  /\ Did("store", 1) /\ Did("skip", 2) /\ Did("store", 3)

\* C6: a condition on a node that has no stored response fails: the node
\* carrying it is skipped, nothing is sent for it, and no failure names it.
C6_AbsentNodeSkips ==
  \A i \in Nodes :
    /\ ( /\ Did("evaluate", i) /\ config.nodes[i].conditions # <<>>
         /\ config.nodes[i].conditions[1].node # ""
         /\ config.nodes[i].conditions[1].node \notin DOMAIN responses )
       => /\ Did("skip", i) /\ ~Did("crash", i) /\ ~Did("send", i)
          /\ ~Stored(i) /\ failure.node # IdOf(i)
    /\ ( /\ verdict.i = i /\ verdict.evaluated > 0
         /\ config.nodes[i].conditions[verdict.evaluated].node # ""
         /\ config.nodes[i].conditions[verdict.evaluated].node \notin DOMAIN responses )
       => verdict.result = "false" /\ Did("skip", i)

\* a cascade: C was skipped, and D, whose first condition names C, was
\* skipped after it, and the run went on to its end
C6_Witness ==
  \E i, j \in Nodes :
    /\ i < j /\ IdOf(i) = "C" /\ IdOf(j) = "D"
    /\ Did("skip", i) /\ Did("skip", j) /\ pc = "done"

\* evaluate_conditions has just returned, or raised
JustEvaluated ==
  /\ Len(trace) > 1
  /\ \/ trace[Len(trace)].ev = "evaluate"
     \/ /\ trace[Len(trace)].ev \in {"skip", "crash"}
        /\ trace[Len(trace) - 1].ev = "evaluate"

\* what one condition of the node just evaluated evaluates to
ResultOf(j) ==
  EvalCondition(config.nodes[verdict.i].conditions[j], clock, guids).result

\* C7: evaluate_conditions returns true iff every condition of the node
\* evaluates to true, so true for a node without conditions; it evaluates
\* the conditions in list order and stops at the first that is not true.
C7_AndShortCircuit ==
  JustEvaluated =>
    /\ (verdict.result = "true") <=>
         \A j \in 1..Len(config.nodes[verdict.i].conditions) : ResultOf(j) = "true"
    /\ config.nodes[verdict.i].conditions = <<>> =>
         (verdict.result = "true" /\ verdict.evaluated = 0)
    /\ verdict.result = "true" =>
         verdict.evaluated = Len(config.nodes[verdict.i].conditions)
    /\ verdict.result # "true" =>
         /\ verdict.evaluated \in 1..Len(config.nodes[verdict.i].conditions)
         /\ ResultOf(verdict.evaluated) = verdict.result
         /\ \A j \in 1..(verdict.evaluated - 1) : ResultOf(j) = "true"

\* D's first condition of three fails: the other two are not evaluated
C7_Witness ==
  /\ JustEvaluated /\ IdOf(verdict.i) = "D"
  /\ verdict.result = "false" /\ verdict.evaluated = 1
  /\ Len(config.nodes[verdict.i].conditions) = 3

\* the request of the node being processed has been built
Built ==
  \E j \in 1..Len(trace) :
    /\ trace[j] = [ev |-> "substitute", i |-> idx]
    /\ j < Len(trace) => trace[j + 1].ev # "crash"

\* C8, as stated: with A's response of status 200 and body {id: 42} stored,
\* B, whose url is /users/{{ .responses.A.id }}, is sent to a URL where 42
\* stands for the placeholder, and at the end of the run responses has both
\* A and B.
C8_ResponseReferenceResolved ==
  ( /\ IdOf(idx) = "B" /\ Built
    /\ "A" \in DOMAIN responses
    /\ responses["A"] = DictV(<<KV("body", Body42), KV("_status_code", IntV(200))>>) )
  => /\ request.url = "https://api/users/42"
     /\ (pc = "done" /\ Did("store", idx)) => {"A", "B"} \subseteq DOMAIN responses

\* what {{ .responses.A._status_code }} reads after substitution
StatusText ==
  IF "A" \in DOMAIN responses
  THEN ToString(StatusOf(responses["A"]))
  ELSE "{{ .responses.A._status_code }}"

\* what {{ .responses.A.body.id }} reads after substitution
IdText ==
  IF "A" \in DOMAIN responses /\ HasKey(BodyItems(responses["A"]), "id")
  THEN IF Get(BodyItems(responses["A"]), "id") = IntV(42)
       THEN "42" ELSE "{{ .vars.x }}"
  ELSE "{{ .responses.A.body.id }}"

\* what {{ .input.who }} reads after substitution
WhoText ==
  IF HasKey(user_inputs, "who")
  THEN IF Get(user_inputs, "who") = S("bob") THEN "bob" ELSE StatusText
  ELSE "{{ .input.who }}"

\* C9: the passes of substitute_variables run in the order dynamic
\* placeholders, vars, input, responses, each over the whole string.  In
\* D's url the variables are resolved before the response reference that
\* stands in front of them: text brought in by a variable is resolved by
\* the input and responses passes, text brought in by the input by the
\* responses pass, and text brought in by a later pass is left as it is by
\* the earlier ones.
C9_PassOrder ==
  (IdOf(idx) = "D" /\ Built) =>
    request.url = "https://api/" \o IdText \o "-7/" \o StatusText
                  \o "/{{ .vars.nope }}/{{ $timestamp }}/" \o WhoText \o "/" \o WhoText

\* A answered a body whose id reads {{ .vars.x }} and the user typed a
\* reference to A's status
C9_Witness ==
  /\ IdOf(idx) = "D" /\ Built
  /\ request.url
       = "https://api/{{ .vars.x }}-7/200/{{ .vars.nope }}/{{ $timestamp }}/200/200"

\* C10, as stated: the {{ $timestamp }} of A's url, of its header X-T and
\* of the two strings of its body all read one value.
C10_OneTimestampPerNode ==
  (IdOf(idx) = "A" /\ Built) =>
    \E stamp \in 1..MaxClock :
      /\ request.url = "https://api/a/" \o ToString(stamp)
      /\ Text(Get(request.headers.c, "X-T").s) = ToString(stamp)
      /\ Text(request.body.s)
           = "{\"t1\": \"" \o ToString(stamp) \o "\", \"t2\": \""
             \o ToString(stamp) \o "\"}"

\* C11, as stated: substitution never fails.  In F's url the undefined
\* variable, the reference to a node without stored response and the
\* reference to a field A's body does not have stay as they are written,
\* no exception is raised and the other placeholders are replaced.
C11_SubstitutionNeverFails ==
  (IdOf(idx) = "F" /\ Did("substitute", idx)) =>
    /\ ~Did("crash", idx)
    /\ request.url
         = "https://api/f/{{ .vars.nope }}/c:\\t/{{ .responses.Z.id }}/"
           \o (IF "A" \in DOMAIN responses
               THEN "{{ .responses.A.body.zz }}/7/" \o IdText
               ELSE "{{ .responses.A.body.zz }}/7/{{ .responses.A.body.id }}")

\* the names user_inputs has values for, in order
InputNames == [j \in 1..Len(user_inputs) |-> user_inputs[j].k]

\* the node whose prompt phase was the last to begin
Prompted == IF Did("prompt", idx) THEN idx ELSE idx - 1

RECURSIVE LastPrompting(_)
\* the last node up to node i that declares userPrompts, 0 if there is none
LastPrompting(i) ==
  IF i = 0 THEN 0
  ELSE IF config.nodes[i].userPrompts # <<>> THEN i
  ELSE LastPrompting(i - 1)

StatusChecks(node) ==
  Cardinality({k \in 1..Len(CollectValidations(node)) :
                 CollectValidations(node)[k].hasStatus})

\* C13, as stated: for every node whose response is validated, exactly one
\* status-code expectation is checked, never none and never more than one.
C13_OneStatusCheck ==
  \A i \in Nodes : Did("validate", i) => StatusChecks(config.nodes[i]) = 1

ErrorOf(v, response_data) ==
  IF v.hasStatus THEN StatusError(v.httpStatusCode, IntV(StatusOf(response_data)))
  ELSE NotFoundError(v.field)

RECURSIVE ErrorsOf(_, _)
\* the failures of the validations that response_data does not meet, in
\* the order of the validations
ErrorsOf(validations, response_data) ==
  IF validations = <<>> THEN <<>>
  ELSE (IF Fails(validations[1], response_data)
        THEN <<ErrorOf(validations[1], response_data)>> ELSE <<>>)
       \o ErrorsOf(Tail(validations), response_data)

\* a status code, or a field that has to exist
Plain(v) == v.hasStatus \/ (v.hasField /\ v.value = None)

AnsweredId(i) == DictGet(BodyItems(ValidatedResponse(i)), "id")

\* C16, as stated: a field validation is checked with the operator it
\* declares, and a validation addressed by jsonpath like one addressed by
\* field.  G, answered with the id 42, meets "id greaterThan 0", so no
\* failure is reported for it; it does not meet "jsonpath id equals 5", so
\* a failure is reported for that.
C16_DeclaredOperatorChecked ==
  \A i \in Nodes :
    (IdOf(i) = "G" /\ Did("validate", i) /\ AnsweredId(i) = IntV(42)) =>
      /\ pc = "aborted" /\ idx = i
      /\ \A k \in 1..Len(failure.errors) : failure.errors[k].expected # IntV(0)
      /\ \E k \in 1..Len(failure.errors) : failure.errors[k].expected = IntV(5)

\* C17, as stated: a numeric operator whose operand is not a number makes
\* the condition false and the node skipped, and nothing is raised.  D's
\* condition "A's id lessThan 100", reached because C has a response, and
\* evaluated with A's id a text that is not a number, leaves D skipped and
\* the run not crashed.
C17_NonNumericIsFalse ==
  \A i \in Nodes :
    ( /\ IdOf(i) = "D" /\ Did("evaluate", i)
      /\ "C" \in DOMAIN responses /\ HasKey(BodyItems(responses["C"]), "id")
      /\ "A" \in DOMAIN responses
      /\ DictGet(BodyItems(responses["A"]), "id").t = "str" )
    => /\ Did("skip", i) /\ ~Did("crash", i)
       /\ failure.node # "D"

\* C18, as stated: an operator that is not supported, or missing, is an
\* evaluation failure and no crash: a condition with it is false, and a
\* validation with it is reported as failed.  G's validation "id contains
\* 42" is reported as failed, also when G is answered with the id 42.
C18_UnknownOperatorFails ==
  /\ _evaluate_operator("contains", IntV(42), IntV(42)) = "false"
  /\ _evaluate_operator("", IntV(42), IntV(42)) = "false"
  /\ \A i \in Nodes :
       (IdOf(i) = "G" /\ Did("validate", i) /\ AnsweredId(i) = IntV(42)) =>
         /\ pc = "aborted" /\ idx = i
         /\ \E k \in 1..Len(failure.errors) : failure.errors[k].expected = IntV(42)

\* the transport raised for node i: its request was sent, is no longer
\* awaited, and was never answered
TransportRaised(i) ==
  Did("send", i) /\ ~Did("receive", i) /\ ~(pc = "await" /\ idx = i)

\* C19: when the transport raises for a node, the run is aborted at that
\* node and the failure names it: its request was sent once only, the node
\* is not skipped, no response is stored for it, and no later node has been
\* prompted, substituted, evaluated or sent.
C19_TransportFailureAborts ==
  \A i \in Nodes :
    TransportRaised(i) =>
      /\ pc = "aborted" /\ idx = i
      /\ failure = [node |-> IdOf(i), kind |-> "transport", errors |-> <<>>]
      /\ Count("send", i) = 1
      /\ ~Did("skip", i) /\ ~Did("validate", i) /\ ~Did("store", i)
      /\ ~Stored(i)
      /\ \A j \in 1..Len(trace) : trace[j].i <= i

\* the transport raised for the second of three nodes, the first one's
\* response stored
C19_Witness ==
  /\ Len(config.nodes) = 3 /\ Stored(1)
  /\ TransportRaised(2) /\ failure.kind = "transport" /\ NotReached(3)

\* the nodes array of the configuration handed over, as a sequence of nodes
GivenNodes == [j \in 1..Len(Get(given.value.c, "nodes").c) |->
                 Get(given.value.c, "nodes").c[j].v]

\* node is an object with an id, a name, a method and a url
WellFormed(node) ==
  node.t = "dict" /\ \A f \in 1..Len(required_fields) : HasKey(node.c, required_fields[f])

\* the configuration handed over, an object, has one of the errors: nodes
\* missing, not a list or empty, a node that is not an object or lacks a
\* required field, an id shared by two nodes, a method that is none of the
\* five (read without regard to case, as validate_config reads it)
Erroneous ==
  \/ ~HasKey(given.value.c, "nodes")
  \/ Get(given.value.c, "nodes").t # "list"
  \/ GivenNodes = <<>>
  \/ \E j \in 1..Len(GivenNodes) : ~WellFormed(GivenNodes[j])
  \/ \E j, k \in 1..Len(GivenNodes) :
       /\ j < k /\ WellFormed(GivenNodes[j]) /\ WellFormed(GivenNodes[k])
       /\ Get(GivenNodes[j].c, "id") = Get(GivenNodes[k].c, "id")
  \/ \E j \in 1..Len(GivenNodes) :
       /\ WellFormed(GivenNodes[j])
       /\ \/ Get(GivenNodes[j].c, "method").t # "str"
          \/ Upper(Text(Get(GivenNodes[j].c, "method").s), 1, "") \notin valid_methods

\* C20, as stated: for a configuration with one of these errors,
\* validate_config reports it as invalid with a message, load_config and
\* generate raise ValueError, and nothing of it is ever run; and a
\* configuration that validate_config accepts has pairwise distinct node
\* ids.
C20_InvalidConfigsRefused ==
  (outcome.op # "" /\ given.json /\ given.value.t = "dict") =>
    /\ Erroneous =>
         /\ ~outcome.ran
         /\ outcome.op = "validate_config" =>
              (outcome.raised = "" /\ ~outcome.valid /\ outcome.msg # "")
         /\ outcome.op \in {"load_config", "generate"} => outcome.raised = "ValueError"
    /\ (outcome.raised = "" /\ outcome.valid) =>
         \A j, k \in 1..Len(GivenNodes) :
           j # k => Get(GivenNodes[j].c, "id") # Get(GivenNodes[k].c, "id")

\* the header keys of the configurations
HeaderKeys == {"Accept", "X-T", "X-Id", "X-C", "X-G"}
\* the value the request built for the current node has under key
Header(key) == Get(request.headers.c, key)

\* C21: the headers built for a node have, for every key, the node's value
\* (substituted) when the node defines the key, otherwise the default's
\* value when skipDefaultHeaders is not true, otherwise no entry.  A defines
\* X-T as a timestamp over the default "none": the timestamp is sent, next
\* to the default Accept.  E skips the defaults and has no headers: its
\* header set is empty.
C21_NodeHeaderWins ==
  Built =>
    /\ \A j \in 1..Len(request.headers.c) : request.headers.c[j].k \in HeaderKeys
    /\ \A key \in HeaderKeys :
         IF HasKey(Node.headers, key)
         THEN /\ HasKey(request.headers.c, key)
              /\ Node.id = "A" => AllDigits(Text(Header(key).s))
              /\ Node.id = "D" => StartsWith(Text(Header(key).s), "uuid")
         ELSE IF ~Node.skipDefaultHeaders /\ HasKey(config.defaults.headers, key)
         THEN /\ HasKey(request.headers.c, key)
              /\ Header(key) = Get(config.defaults.headers, key)
         ELSE ~HasKey(request.headers.c, key)
    /\ Node.id = "E" => request.headers.c = <<>>

\* A's request: its own X-T, a timestamp, and the default Accept
C21_Witness ==
  /\ Built /\ Node.id = "A"
  /\ Len(request.headers.c) = 2
  /\ AllDigits(Text(Header("X-T").s)) /\ Header("Accept") = S("json")

\* C22: build_url decides on the substituted URL: one that starts with
\* http:// or https:// is returned as it is, any other gets the base URL in
\* front.  G's url, {{ .vars.home }}g, is relative as written and absolute
\* once home is resolved: it is sent to http://h/g, without the base URL.
\* Every other node's url is relative after substitution and is sent under
\* https://api/.
C22_UrlDecidedAfterSubstitution ==
  Built =>
    /\ Node.id = "G" => request.url = "http://h/g"
    /\ Node.id = "C" => request.url = "https://api/c"
    /\ Node.id # "G" =>
         /\ StartsWith(request.url, "https://api/")
         /\ ~StartsWith(request.url, "https://api//")

\* G's request built, after a node sent under the base URL was stored
C22_Witness ==
  /\ Built /\ Node.id = "G" /\ request.url = "http://h/g"
  /\ idx > 1 /\ Stored(idx - 1)

\* C23, as stated: extract_field returns the addressed sub-value or
\* not-found: a missing key, an index out of range, an index into a scalar
\* or null, a malformed index all give not-found.  The ids A is answered
\* with are a number, a text or none at all, so id[0] finds nothing in any
\* of them, and C's header {{ .responses.A.body.id[0] }} is sent as written.
C23_IndexingScalarNotFound ==
  /\ extract_field(Body42, <<KeyIdx("id", 0)>>) = None
  /\ extract_field(BodyEmpty, <<KeyIdx("id", 0)>>) = None
  /\ extract_field(Body42, <<KeyBadIdx("id")>>) = None
  /\ extract_field(ListV(<<KV("", IntV(1))>>), <<KeyIdx("", 5)>>) = None
  /\ (Built /\ Node.id = "C") =>
       Text(Header("X-C").s) = "{{ .responses.A.body.id[0] }}"

\* C24: variables is the configuration's variables in every state, and no
\* step changes variables or the configuration (its defaults and its
\* nodes); the steps that substitute, evaluate conditions and validate
\* change neither responses nor user_inputs.
C24_PureStepsKeepState ==
  [][ /\ variables = config.variables
      /\ variables' = variables
      /\ config' = config
      /\ pc \in {"substitute", "evaluate", "validate"} =>
           (responses' = responses /\ user_inputs' = user_inputs) ]_vars

\* B's request is built after A, which overrides the default X-T, was
\* stored: B is sent the default headers
C24_Witness ==
  /\ idx = 2 /\ IdOf(1) = "A" /\ Stored(1) /\ Did("validate", 1)
  /\ Built /\ Node.id = "B"
  /\ request.headers.c = config.defaults.headers
  /\ variables = config.variables

\* C25: responses only grows: from one state to the next no key goes away
\* and no entry of another node changes, and responses changes only in the
\* Store-Response step of a node, which writes the response received for
\* that node under that node's id.
C25_ResponsesGrow ==
  [][ /\ DOMAIN responses \subseteq DOMAIN responses'
      /\ responses' # responses =>
           /\ pc = "store"
           /\ DOMAIN responses' = DOMAIN responses \cup {Node.id}
           /\ responses'[Node.id] = response
           /\ \A id \in DOMAIN responses \ {Node.id} : responses'[id] = responses[id] ]_vars

\* a run that ended with the responses of three nodes stored
C25_Witness ==
  /\ pc = "done" /\ Cardinality(DOMAIN responses) = 3
  /\ \A i \in Nodes : Did("store", i) /\ Stored(i)

\* C26, as stated: for a node that skips the default validations and has
\* none of its own, nothing is validated: whatever the status of its
\* response, no failure is reported for it and the response is kept.
C26_NoValidationsAcceptAll ==
  \A i \in Nodes :
    ( /\ Did("validate", i)
      /\ config.nodes[i].skipDefaultValidations
      /\ config.nodes[i].validations = <<>> )
    => /\ failure.node # IdOf(i)
       /\ Stored(i) \/ (pc = "store" /\ idx = i)

\* what {{ .responses.A.body.tpl }} reads after substitution
TplText ==
  IF "A" \in DOMAIN responses /\ HasKey(BodyItems(responses["A"]), "tpl")
  THEN "{{ .input.who }}{{ $guid }}{{ $timestamp }}"
  ELSE "{{ .responses.A.body.tpl }}"

\* G's header X-G after substitution, the variable first reading as text
XG(text) ==
  text \o "|" \o WhoText \o "|" \o StatusText \o "|" \o TplText \o "|" \o IdText

ThirdOfD == JustEvaluated /\ IdOf(verdict.i) = "D" /\ verdict.evaluated = 3

\* the text 200 is not the number 200: D's third condition is false with
\* C's status 200 stored, and F's first, code notEquals {{ .vars.code }},
\* is true
PlaceholderIsText ==
  /\ ThirdOfD => (verdict.result = "false" /\ StatusOf(responses["C"]) = 200)
  /\ \A i \in Nodes :
       (IdOf(i) = "F" /\ verdict.i = i /\ verdict.result # "raise") =>
         verdict.evaluated > 1

\* C28, as stated: a placeholder is substituted by text, which equals no
\* number; statusCode and equals hold only for an actual and an expected
\* value of the same type and value.  F's second condition compares the
\* variable one, the number 1, with true: it is false and F is skipped.
C28_SameTypeAndValue ==
  /\ PlaceholderIsText
  /\ \A i \in Nodes :
       (IdOf(i) = "F" /\ verdict.i = i /\ verdict.result # "raise") =>
         (verdict.result = "false" /\ verdict.evaluated = 2)

\* C28, amended: a placeholder is substituted by text, which equals no
\* number; statusCode and equals hold when actual and expected are equal
\* as Python values: texts with texts, numbers and booleans with each other
\* by value.  F's second condition, the number 1 against true, and its
\* third, 200 against 200, hold and F is not skipped.
C28_EqualAsPythonValues ==
  /\ PlaceholderIsText
  /\ \A i \in Nodes :
       (IdOf(i) = "F" /\ verdict.i = i /\ verdict.result # "raise") =>
         (verdict.result = "true" /\ verdict.evaluated = 3 /\ ~Did("skip", i))

\* F's three conditions held, the first against a placeholder, the second
\* against true, and F was sent
C28_Witness ==
  /\ IdOf(idx) = "F" /\ Did("send", idx)
  /\ verdict = [i |-> idx, result |-> "true", evaluated |-> 3]

\* the errors validate_response returned for the current node
Returned == IF pc = "aborted" THEN failure.errors ELSE <<>>

\* C29, as stated: validate_response never raises; it checks every
\* validation that applies, the defaults first, also after one has failed,
\* and returns the failures in that order.  For validations that are status
\* codes and fields that have to exist: one failure for each that is not
\* met, none when all are met.
C29_AllCheckedNeverRaises ==
  Did("validate", idx) =>
    /\ pc # "crashed" /\ failure.kind # "exception"
    /\ (\A k \in 1..Len(Applicable(Node)) : Plain(Applicable(Node)[k])) =>
         Returned = ErrorsOf(CollectValidations(Node), response)

\* C30: every run ends: it reaches the end of the node list, or stops at a
\* fatal error; and on the way no node is prompted, substituted, evaluated,
\* sent or validated more than once.
C30_RunTerminates ==
  /\ <>RunEnded
  /\ [](\A i \in Nodes :
          \A ev \in {"prompt", "substitute", "evaluate", "send", "receive", "validate"} :
            Count(ev, i) <= 1)

\* a run of three nodes at its end, each node entered once
C30_Witness ==
  /\ pc = "done" /\ Len(config.nodes) = 3
  /\ \A i \in Nodes : Count("prompt", i) = 1 /\ Count("substitute", i) = 1
  /\ \E i \in Nodes : Count("send", i) = 1 /\ Count("validate", i) = 1

====
